---- MODULE Spec2Model ----
(***************************************************************************)
(* The WinGo predictor of app.py: the /data route (fetch_data + evaluate), *)
(* the predictions table, and the daily reset job with its CSV archive.    *)
(*                                                                         *)
(* Strings are TLA+ strings.  The two emoji of the outcome labels are left *)
(* out ("WIN", "LOSS"); nothing in the program reads past the first word.  *)
(* The timestamp column holds the day on which the row was written.        *)
(***************************************************************************)
EXTENDS Integers, Sequences, FiniteSets, TLC

\* ------------------------------------------------------------------ bounds
\* Events the remote feed resolves in one run.
MaxEvents == 5
\* Midnights (cron firings of reset_daily) in one run.
MaxResets == 1
\* issueNumber of the first event the feed resolves.
FirstIssue == 2025001
\* Overlapping executions: events the feed resolves, and requests made.
ConcEvents == 4
MaxRequests == 2
\* Length of the history the feed already holds when the process starts:
\* over Big/Small draws, and over draws of several numbers.
MaxWindow == 11
MaxHotWindow == 5

\* --------------------------------------------------------------- constants
PAGE_SIZE == 20
ARCHIVE_FOLDER == "archives/"
\* evaluate: "if self.loss_streak >= 3"
SwitchThreshold == 3
\* follow_trend: "values[:10]", ">= 7", "last[:3]"
TrendWindow == 10
TrendExtreme == 7
TrendRun == 3
\* analyze: "most_common(3)";  evaluate: "hot[:2]"
HotN == 3
HintN == 2
\* fetch_data: "Big" if number >= 5
BigFrom == 5
\* evaluate: "latest_issue[-5:]"
IssueTail == 5

None == "None"

\* What the feed can draw: a number 0..9 with the colour the feed gives it.
Draws ==
    { [number |-> 4, color |-> "red"], [number |-> 5, color |-> "green,violet"] }

\* ----------------------------------------------------------------- helpers
Min(a, b) == IF a < b THEN a ELSE b

Take(s, n) == SubSeq(s, 1, Min(n, Len(s)))

Count(s, v) == Cardinality({ i \in DOMAIN s : s[i] = v })

RECURSIVE JoinNums(_)
\* ", ".join(map(str, nums))
JoinNums(nums) ==
    IF nums = <<>> THEN ""
    ELSE IF Len(nums) = 1 THEN ToString(nums[1])
    ELSE ToString(nums[1]) \o ", " \o JoinNums(Tail(nums))

\* s[-5:]
LastChars(s) ==
    IF Len(s) <= IssueTail THEN s ELSE SubSeq(s, Len(s) - IssueTail + 1, Len(s))

\* int(s) for the decimal strings the feed issues; "N/A" is the except branch.
IssueNumbers == FirstIssue .. (FirstIssue + MaxEvents + 1)

NextIssue(s) ==
    IF \E n \in IssueNumbers : ToString(n) = s
    THEN ToString((CHOOSE n \in IssueNumbers : ToString(n) = s) + 1)
    ELSE "N/A"

\* round(x, 1) of x = 100 * num / den, as a count of tenths (half to even).
RoundTenths(num, den) ==
    LET q == (1000 * num) \div den
        r == (1000 * num) % den
    IN  IF 2 * r > den \/ (2 * r = den /\ q % 2 = 1) THEN q + 1 ELSE q

\* ------------------------------------------------------------------- state
VARIABLES
    feed,       \* the remote history, most recent first (raw JSON entries)
    predictor,  \* the WinGoPredictor instance
    db,         \* table predictions, in id order
    rowid,      \* sqlite_sequence of predictions (AUTOINCREMENT)
    archives,   \* files of ARCHIVE_FOLDER: name -> content
    today,      \* midnights passed
    resp,       \* the last response of /data
    req,        \* per request thread: where it is in data()/evaluate(), its locals
    job,        \* the scheduler's thread: where it is in reset_daily(), its locals
    started     \* requests and jobs begun step by step

shared == <<feed, predictor, db, rowid, archives, today, resp>>
threads == <<req, job, started>>
vars == <<feed, predictor, db, rowid, archives, today, resp, req, job, started>>

\* WinGoPredictor.__init__
NewPredictor ==
    [ loss_streak |-> 0,
      total_predictions |-> 0,
      total_wins |-> 0,
      total_losses |-> 0,
      last_issue |-> None,
      current_prediction |-> None,
      strategy |-> "Follow-Trend" ]

\* ------------------------------------------------------------- fetch_data
BigSmallOf(n) == IF n >= BigFrom THEN "Big" ELSE "Small"

\* One row of the DataFrame built from a JSON entry.
Row(d) ==
    [ Issue |-> ToString(d.issueNumber),
      Number |-> d.number,
      Color |-> d.color,
      BigSmall |-> BigSmallOf(d.number) ]

\* The frame of page 1 of the history f.
Page(f) == [ i \in 1 .. Min(PAGE_SIZE, Len(f)) |-> Row(f[i]) ]

\* fetch_data: page 1 of the history, or the empty frame on any failure.
fetch_data(ok) == IF ok THEN Page(feed) ELSE <<>>

\* ---------------------------------------------------------------- analyze
RECURSIVE Distinct(_)
\* The keys of Counter(nums), in insertion order.
Distinct(nums) ==
    IF nums = <<>> THEN <<>>
    ELSE LET init == Distinct(SubSeq(nums, 1, Len(nums) - 1))
             x == nums[Len(nums)]
         IN  IF Count(init, x) > 0 THEN init ELSE Append(init, x)

RECURSIVE MostCommon(_, _, _)
\* Counter.most_common(n): by count, descending; equal counts in insertion order.
MostCommon(keys, nums, n) ==
    IF n = 0 \/ keys = <<>> THEN <<>>
    ELSE LET best == CHOOSE i \in DOMAIN keys :
                       /\ \A j \in DOMAIN keys : Count(nums, keys[j]) <= Count(nums, keys[i])
                       /\ \A j \in 1 .. (i - 1) : Count(nums, keys[j]) < Count(nums, keys[i])
             rest == [ j \in 1 .. (Len(keys) - 1) |->
                         IF j < best THEN keys[j] ELSE keys[j + 1] ]
         IN  <<keys[best]>> \o MostCommon(rest, nums, n - 1)

Numbers(df) == [ i \in DOMAIN df |-> df[i].Number ]

\* The frame fetch_data builds from no entries, pd.DataFrame([]), has no
\* columns: df["Number"] raises KeyError.  The raise is told apart from every
\* list of hot numbers by a list that holds no number of the feed.
KeyError == << -1 >>

\* analyze that takes the first numbers seen, whatever their counts.
AnalyzeFirstSeen(df) ==
    IF df = <<>> THEN KeyError ELSE Take(Distinct(Numbers(df)), HotN)

analyze(df) ==
    IF df = <<>> THEN KeyError
    ELSE MostCommon(Distinct(Numbers(df)), Numbers(df), HotN)

\* ----------------------------------------------------------- follow_trend
AllOf(s, v) == \A i \in DOMAIN s : s[i] = v

\* follow_trend with the run of three looked at before the count of seven.
FollowMomentumFirst(df) ==
    LET last == Take([ i \in DOMAIN df |-> df[i].BigSmall ], TrendWindow)
        big_count == Count(last, "Big")
        small_count == Count(last, "Small")
    IN  IF AllOf(Take(last, TrendRun), "Big") THEN "Big"
        ELSE IF AllOf(Take(last, TrendRun), "Small") THEN "Small"
        ELSE IF big_count >= TrendExtreme THEN "Small"
        ELSE IF small_count >= TrendExtreme THEN "Big"
        ELSE IF big_count > small_count THEN "Big" ELSE "Small"

follow_trend(df) ==
    LET last == Take([ i \in DOMAIN df |-> df[i].BigSmall ], TrendWindow)
        big_count == Count(last, "Big")
        small_count == Count(last, "Small")
    IN  IF big_count >= TrendExtreme THEN "Small"
        ELSE IF small_count >= TrendExtreme THEN "Big"
        ELSE IF AllOf(Take(last, TrendRun), "Big") THEN "Big"
        ELSE IF AllOf(Take(last, TrendRun), "Small") THEN "Small"
        ELSE IF big_count > small_count THEN "Big" ELSE "Small"

\* --------------------------------------------------------------- evaluate
\* Score with a loss that is not counted in total_losses.
ScoreUncountedLoss(p, result) ==
    IF p.current_prediction /= None
    THEN IF p.current_prediction = result
         THEN [ p |-> [ p EXCEPT !.total_predictions = @ + 1,
                                 !.total_wins = @ + 1,
                                 !.loss_streak = 0 ],
                outcome |-> "WIN" ]
         ELSE [ p |-> [ p EXCEPT !.total_predictions = @ + 1,
                                 !.loss_streak = @ + 1 ],
                outcome |-> "LOSS" ]
    ELSE [ p |-> p, outcome |-> "First Run" ]

\* Score with a win that leaves the loss streak standing.
ScoreKeepStreak(p, result) ==
    IF p.current_prediction /= None
    THEN IF p.current_prediction = result
         THEN [ p |-> [ p EXCEPT !.total_predictions = @ + 1,
                                 !.total_wins = @ + 1 ],
                outcome |-> "WIN" ]
         ELSE [ p |-> [ p EXCEPT !.total_predictions = @ + 1,
                                 !.total_losses = @ + 1,
                                 !.loss_streak = @ + 1 ],
                outcome |-> "LOSS" ]
    ELSE [ p |-> p, outcome |-> "First Run" ]

\* Score with the labels of the two outcomes exchanged.
ScoreMislabelled(p, result) ==
    IF p.current_prediction /= None
    THEN IF p.current_prediction = result
         THEN [ p |-> [ p EXCEPT !.total_predictions = @ + 1,
                                 !.total_wins = @ + 1,
                                 !.loss_streak = 0 ],
                outcome |-> "LOSS" ]
         ELSE [ p |-> [ p EXCEPT !.total_predictions = @ + 1,
                                 !.total_losses = @ + 1,
                                 !.loss_streak = @ + 1 ],
                outcome |-> "WIN" ]
    ELSE [ p |-> p, outcome |-> "First Run" ]

\* Lines 136-147: score the pending prediction against the actual result.
Score(p, result) ==
    IF p.current_prediction /= None
    THEN IF p.current_prediction = result
         THEN [ p |-> [ p EXCEPT !.total_predictions = @ + 1,
                                 !.total_wins = @ + 1,
                                 !.loss_streak = 0 ],
                outcome |-> "WIN" ]
         ELSE [ p |-> [ p EXCEPT !.total_predictions = @ + 1,
                                 !.total_losses = @ + 1,
                                 !.loss_streak = @ + 1 ],
                outcome |-> "LOSS" ]
    ELSE [ p |-> p, outcome |-> "First Run" ]

Flip(base) == IF base = "Small" THEN "Big" ELSE "Small"

SwitchLabel(n) == "Switched (losses=" \o ToString(n) \o ")"

\* Choose that switches one loss late (> for >=).
ChooseLate(p, base) ==
    IF p.loss_streak > SwitchThreshold
    THEN [ p EXCEPT !.current_prediction = Flip(base),
                    !.strategy = SwitchLabel(p.loss_streak) ]
    ELSE [ p EXCEPT !.current_prediction = base,
                    !.strategy = "Follow-Trend" ]

\* Choose that switches one loss early.
ChooseEarly(p, base) ==
    IF p.loss_streak >= SwitchThreshold - 1
    THEN [ p EXCEPT !.current_prediction = Flip(base),
                    !.strategy = SwitchLabel(p.loss_streak) ]
    ELSE [ p EXCEPT !.current_prediction = base,
                    !.strategy = "Follow-Trend" ]

\* Choose that switches without saying so.
ChooseUnlabelled(p, base) ==
    IF p.loss_streak >= SwitchThreshold
    THEN [ p EXCEPT !.current_prediction = Flip(base),
                    !.strategy = "Follow-Trend" ]
    ELSE [ p EXCEPT !.current_prediction = base,
                    !.strategy = "Follow-Trend" ]

\* Lines 151-156: the next prediction and the strategy that gave it.
Choose(p, base) ==
    IF p.loss_streak >= SwitchThreshold
    THEN [ p EXCEPT !.current_prediction = Flip(base),
                    !.strategy = SwitchLabel(p.loss_streak) ]
    ELSE [ p EXCEPT !.current_prediction = base,
                    !.strategy = "Follow-Trend" ]

\* Lines 158-162: the prediction as it is stored.
PredictionDisplay(prediction, hot) ==
    prediction \o " (" \o (IF hot /= <<>> THEN JoinNums(Take(hot, HintN)) ELSE "?") \o ")"

\* save_prediction: the row INSERTed, given the id sqlite assigns.
SavedRow(id, issue, number, bigsmall, color, prediction, strategy, outcome, day) ==
    [ id |-> id, issue |-> issue, number |-> number, bigsmall |-> bigsmall,
      color |-> color, prediction |-> prediction, strategy |-> strategy,
      outcome |-> outcome, timestamp |-> day ]

NoData ==
    [ issue |-> "-----", number |-> "-", result |-> "-", color |-> "-",
      outcome |-> "No Data", hot |-> <<>> ]

\* Evaluated that saves the prediction and the strategy held before the call.
EvaluatedBefore(p, df, fresh, sc, p2, hot) ==
    [ p |-> IF fresh THEN p2 ELSE p,
      saved |-> fresh,
      issue |-> df[1].Issue,
      number |-> df[1].Number,
      bigsmall |-> df[1].BigSmall,
      color |-> df[1].Color,
      prediction |-> PredictionDisplay(p.current_prediction, hot),
      strategy |-> p.strategy,
      outcome |-> sc.outcome,
      ret |-> [ issue |-> LastChars(df[1].Issue), number |-> df[1].Number,
                result |-> df[1].BigSmall, color |-> df[1].Color,
                outcome |-> IF fresh THEN sc.outcome ELSE "",
                hot |-> hot ] ]

\* Lines 135-175 for a non-empty frame, given the scoring sc of lines 136-147,
\* the state p2 that lines 149-156 leave and the hot numbers of analyze.
Evaluated(p, df, fresh, sc, p2, hot) ==
    [ p |-> IF fresh THEN p2 ELSE p,
      saved |-> fresh,
      issue |-> df[1].Issue,
      number |-> df[1].Number,
      bigsmall |-> df[1].BigSmall,
      color |-> df[1].Color,
      prediction |-> PredictionDisplay(p2.current_prediction, hot),
      strategy |-> p2.strategy,
      outcome |-> sc.outcome,
      ret |-> [ issue |-> LastChars(df[1].Issue), number |-> df[1].Number,
                result |-> df[1].BigSmall, color |-> df[1].Color,
                outcome |-> IF fresh THEN sc.outcome ELSE "",
                hot |-> hot ] ]

\* Fresh with no memory of the last issue: every poll is taken as new.
FreshAlways(p, latest_issue) == TRUE

\* Fresh that compares the displayed tail of the last issue with the full issue.
FreshByTail(p, latest_issue) == p.last_issue /= LastChars(latest_issue)

\* Line 135: is the latest issue one not seen yet?
Fresh(p, latest_issue) == p.last_issue /= latest_issue

\* Advance that does not record the issue it resolved.
AdvanceNoIssue(sc, df) == Choose(sc.p, follow_trend(df))

\* Lines 149-156 after the scoring sc.
Advance(sc, df) ==
    Choose([ sc.p EXCEPT !.last_issue = df[1].Issue ], follow_trend(df))

\* evaluate that starts over on an empty frame.
EvaluateForgetful(p, df) ==
    IF df = <<>> THEN [ p |-> NewPredictor, saved |-> FALSE, ret |-> NoData ]
    ELSE Evaluated(p, df, Fresh(p, df[1].Issue), Score(p, df[1].BigSmall),
                   Advance(Score(p, df[1].BigSmall), df), analyze(df))

\* evaluate(df) from predictor state p: the state it leaves, whether it saved a
\* prediction and what it saved, and the tuple it returns.
evaluate(p, df) ==
    IF df = <<>> THEN [ p |-> p, saved |-> FALSE, ret |-> NoData ]
    ELSE Evaluated(p, df, Fresh(p, df[1].Issue), Score(p, df[1].BigSmall),
                   Advance(Score(p, df[1].BigSmall), df), analyze(df))

\* ------------------------------------------------------------------ /data
Last10(p, df) ==
    [ i \in 1 .. Min(10, Len(df)) |->
        [ Issue |-> df[i].Issue, Number |-> df[i].Number,
          BigSmall |-> df[i].BigSmall, Color |-> df[i].Color,
          Outcome |-> IF p.current_prediction = df[i].BigSmall THEN "WIN" ELSE "LOSS" ] ]

NoResponse == [ status |-> 0 ]

ErrorResponse == [ status |-> 500, error |-> "No data fetched from API" ]

\* The JSON of /data after evaluate returned ret and left the predictor as p.
DataResponse(p, df, ret) ==
    [ status |-> 200,
      issue |-> ret.issue,
      next_issue |-> NextIssue(p.last_issue),
      number |-> ret.number,
      result |-> ret.result,
      color |-> ret.color,
      prediction |-> p.current_prediction,
      strategy |-> p.strategy,
      outcome |-> ret.outcome,
      wins |-> p.total_wins,
      losses |-> p.total_losses,
      total |-> p.total_predictions,
      accuracy |-> IF p.total_predictions > 0
                   THEN RoundTenths(p.total_wins, p.total_predictions) ELSE 0,
      hot |-> ret.hot,
      last10 |-> Last10(p, df) ]

\* ------------------------------------------------------------ reset_daily
\* Zeroed that keeps the last issue seen.
ZeroedKeepIssue(p) ==
    [ p EXCEPT !.loss_streak = 0, !.total_predictions = 0, !.total_wins = 0,
               !.total_losses = 0, !.current_prediction = None,
               !.strategy = "Follow-Trend" ]

\* Zeroed that keeps the wins and the losses counted.
ZeroedKeepCounts(p) ==
    [ p EXCEPT !.loss_streak = 0, !.total_predictions = 0, !.last_issue = None,
               !.current_prediction = None, !.strategy = "Follow-Trend" ]

\* Lines 192-198: the predictor p with every field put back.
Zeroed(p) ==
    [ p EXCEPT !.loss_streak = 0, !.total_predictions = 0, !.total_wins = 0,
               !.total_losses = 0, !.last_issue = None,
               !.current_prediction = None, !.strategy = "Follow-Trend" ]

\* ----------------------------------------------------------- history_view
\* outcome LIKE 'WIN%': the outcome begins with the pattern's text.
Like(s, prefix) == Len(s) >= Len(prefix) /\ SubSeq(s, 1, Len(prefix)) = prefix

\* SELECT COUNT(*) FROM predictions WHERE outcome LIKE '<prefix>%'
CountLike(rows, prefix) ==
    Cardinality({ i \in DOMAIN rows : Like(rows[i].outcome, prefix) })

\* The wins and losses that /history/view shows.
history_view == [ wins |-> CountLike(db, "WIN"), losses |-> CountLike(db, "LOSS") ]

\* ------------------------------------------------------- export_history_csv
Headers ==
    << "id", "issue", "number", "bigsmall", "color", "prediction", "strategy",
       "outcome", "timestamp" >>

CsvFile(rows) == [ headers |-> Headers, rows |-> rows ]

ArchiveName(day) == ARCHIVE_FOLDER \o "history_" \o ToString(day) \o ".csv"

\* -------------------------------------------------------------------- Init
\* The werkzeug server answers each request on a thread of its own.
Threads == { "w1", "w2" }

IdleRequest == [ pc |-> "idle", df |-> <<>>, outcome |-> "", base |-> None,
                 prediction_display |-> "" ]

IdleJob == [ pc |-> "idle", rows |-> <<>> ]

Init ==
    /\ feed = <<>>
    /\ predictor = NewPredictor
    /\ db = <<>>
    /\ rowid = 0
    /\ archives = <<>>
    /\ today = 0
    /\ resp = NoResponse
    /\ req = [ t \in Threads |-> IdleRequest ]
    /\ job = IdleJob
    /\ started = 0

\* ----------------------------------------------------------------- actions
\* The remote draw: one more resolved event at the head of the history.
Draw(max) ==
    /\ Len(feed) < max
    /\ \E d \in Draws :
         feed' = << [ issueNumber |-> FirstIssue + Len(feed),
                      number |-> d.number, color |-> d.color ] >> \o feed

NewEvent ==
    /\ Draw(MaxEvents)
    /\ UNCHANGED <<predictor, db, rowid, archives, today, resp, threads>>

\* data() once fetch_data returned df and evaluate returned e.
Respond(df, e) ==
    IF df = <<>>
    THEN /\ resp' = ErrorResponse
         /\ UNCHANGED <<predictor, db, rowid>>
    ELSE /\ predictor' = e.p
         /\ IF e.saved
            THEN /\ rowid' = rowid + 1
                 /\ db' = Append(db, SavedRow(rowid + 1, e.issue, e.number,
                             e.bigsmall, e.color, e.prediction, e.strategy,
                             e.outcome, today))
            ELSE UNCHANGED <<db, rowid>>
         /\ resp' = DataResponse(e.p, df, e.ret)

\* GET /data, start to end with no other request or job in between.
Data ==
    /\ \E ok \in BOOLEAN :
         Respond(fetch_data(ok), evaluate(predictor, fetch_data(ok)))
    /\ UNCHANGED <<feed, archives, today, threads>>

\* Midnight: the cron job reset_daily, start to end.
ResetDaily ==
    /\ today < MaxResets
    /\ today' = today + 1
    /\ archives' = (ArchiveName(today + 1) :> CsvFile(db)) @@ archives
    /\ db' = <<>>
    /\ predictor' = Zeroed(predictor)
    /\ UNCHANGED <<feed, rowid, resp>>
    /\ UNCHANGED threads

Next == NewEvent \/ Data \/ ResetDaily

Spec == Init /\ [][Next]_vars

\* ------------------------------------------------- overlapping executions
\* The same code one statement at a time.  app.run() serves every request on
\* its own thread and BackgroundScheduler runs reset_daily on another; nothing
\* in app.py takes a lock, so the statements of overlapping calls interleave.
\* latest_issue, result, number and color (lines 129-132) are read off df.
At(t, pc) == req[t].pc = pc

Goto(t, pc) == req' = [ req EXCEPT ![t].pc = pc ]

\* data(), lines 215-217: fetch; an empty frame is answered with the 500.
Fetch(t) ==
    /\ At(t, "idle")
    /\ started < MaxRequests
    /\ started' = started + 1
    /\ \E ok \in BOOLEAN :
         IF fetch_data(ok) = <<>>
         THEN /\ resp' = ErrorResponse
              /\ UNCHANGED req
         ELSE /\ req' = [ req EXCEPT ![t].pc = "135", ![t].df = fetch_data(ok) ]
              /\ UNCHANGED resp
    /\ UNCHANGED <<feed, predictor, db, rowid, archives, today, job>>

\* evaluate(), line 135 (and line 133: outcome = "")
E135(t) ==
    /\ At(t, "135")
    /\ Goto(t, IF Fresh(predictor, req[t].df[1].Issue) THEN "136" ELSE "174")
    /\ UNCHANGED <<shared, job, started>>

\* lines 136 and 147
E136(t) ==
    /\ At(t, "136")
    /\ IF predictor.current_prediction /= None
       THEN Goto(t, "137")
       ELSE req' = [ req EXCEPT ![t].pc = "149", ![t].outcome = "First Run" ]
    /\ UNCHANGED <<shared, job, started>>

E137(t) ==
    /\ At(t, "137")
    /\ predictor' = [ predictor EXCEPT !.total_predictions = @ + 1 ]
    /\ Goto(t, "138")
    /\ UNCHANGED <<feed, db, rowid, archives, today, resp, job, started>>

E138(t) ==
    /\ At(t, "138")
    /\ Goto(t, IF predictor.current_prediction = req[t].df[1].BigSmall
               THEN "139" ELSE "143")
    /\ UNCHANGED <<shared, job, started>>

E139(t) ==
    /\ At(t, "139")
    /\ predictor' = [ predictor EXCEPT !.total_wins = @ + 1 ]
    /\ Goto(t, "140")
    /\ UNCHANGED <<feed, db, rowid, archives, today, resp, job, started>>

\* lines 140-141
E140(t) ==
    /\ At(t, "140")
    /\ predictor' = [ predictor EXCEPT !.loss_streak = 0 ]
    /\ req' = [ req EXCEPT ![t].pc = "149", ![t].outcome = "WIN" ]
    /\ UNCHANGED <<feed, db, rowid, archives, today, resp, job, started>>

E143(t) ==
    /\ At(t, "143")
    /\ predictor' = [ predictor EXCEPT !.total_losses = @ + 1 ]
    /\ Goto(t, "144")
    /\ UNCHANGED <<feed, db, rowid, archives, today, resp, job, started>>

\* lines 144-145
E144(t) ==
    /\ At(t, "144")
    /\ predictor' = [ predictor EXCEPT !.loss_streak = @ + 1 ]
    /\ req' = [ req EXCEPT ![t].pc = "149", ![t].outcome = "LOSS" ]
    /\ UNCHANGED <<feed, db, rowid, archives, today, resp, job, started>>

\* lines 149-150
E149(t) ==
    /\ At(t, "149")
    /\ predictor' = [ predictor EXCEPT !.last_issue = req[t].df[1].Issue ]
    /\ req' = [ req EXCEPT ![t].pc = "151", ![t].base = follow_trend(req[t].df) ]
    /\ UNCHANGED <<feed, db, rowid, archives, today, resp, job, started>>

E151(t) ==
    /\ At(t, "151")
    /\ Goto(t, IF predictor.loss_streak >= SwitchThreshold THEN "152" ELSE "155")
    /\ UNCHANGED <<shared, job, started>>

E152(t) ==
    /\ At(t, "152")
    /\ predictor' = [ predictor EXCEPT !.current_prediction = Flip(req[t].base) ]
    /\ Goto(t, "153")
    /\ UNCHANGED <<feed, db, rowid, archives, today, resp, job, started>>

E153(t) ==
    /\ At(t, "153")
    /\ predictor' = [ predictor EXCEPT !.strategy = SwitchLabel(predictor.loss_streak) ]
    /\ Goto(t, "158")
    /\ UNCHANGED <<feed, db, rowid, archives, today, resp, job, started>>

E155(t) ==
    /\ At(t, "155")
    /\ predictor' = [ predictor EXCEPT !.current_prediction = req[t].base ]
    /\ Goto(t, "156")
    /\ UNCHANGED <<feed, db, rowid, archives, today, resp, job, started>>

E156(t) ==
    /\ At(t, "156")
    /\ predictor' = [ predictor EXCEPT !.strategy = "Follow-Trend" ]
    /\ Goto(t, "158")
    /\ UNCHANGED <<feed, db, rowid, archives, today, resp, job, started>>

\* lines 158-162
E158(t) ==
    /\ At(t, "158")
    /\ req' = [ req EXCEPT ![t].pc = "164",
                           ![t].prediction_display =
                               PredictionDisplay(predictor.current_prediction,
                                                 analyze(req[t].df)) ]
    /\ UNCHANGED <<shared, job, started>>

\* lines 164-172: save_prediction, its INSERT committed
E164(t) ==
    /\ At(t, "164")
    /\ rowid' = rowid + 1
    /\ db' = Append(db, SavedRow(rowid + 1, req[t].df[1].Issue, req[t].df[1].Number,
                        req[t].df[1].BigSmall, req[t].df[1].Color,
                        req[t].prediction_display, predictor.strategy,
                        req[t].outcome, today))
    /\ Goto(t, "174")
    /\ UNCHANGED <<feed, predictor, archives, today, resp, job, started>>

\* lines 174-175, and data() lines 219-252: the response
E174(t) ==
    /\ At(t, "174")
    /\ resp' = DataResponse(predictor, req[t].df,
                   [ issue |-> LastChars(req[t].df[1].Issue),
                     number |-> req[t].df[1].Number,
                     result |-> req[t].df[1].BigSmall,
                     color |-> req[t].df[1].Color,
                     outcome |-> req[t].outcome,
                     hot |-> analyze(req[t].df) ])
    /\ req' = [ req EXCEPT ![t] = IdleRequest ]
    /\ UNCHANGED <<feed, predictor, db, rowid, archives, today, job, started>>

\* reset_daily(), line 183: the job starts at midnight
R183 ==
    /\ job.pc = "idle"
    /\ today < MaxResets
    /\ today' = today + 1
    /\ job' = [ job EXCEPT !.pc = "62" ]
    /\ UNCHANGED <<feed, predictor, db, rowid, archives, resp, req, started>>

\* export_history_csv(), lines 60-65: SELECT * FROM predictions
R62 ==
    /\ job.pc = "62"
    /\ job' = [ pc |-> "71", rows |-> db ]
    /\ UNCHANGED <<shared, req, started>>

\* lines 67-75: the file is written
R71 ==
    /\ job.pc = "71"
    /\ archives' = (ArchiveName(today) :> CsvFile(job.rows)) @@ archives
    /\ job' = [ pc |-> "188", rows |-> <<>> ]
    /\ UNCHANGED <<feed, predictor, db, rowid, today, resp, req, started>>

\* reset_daily(), lines 186-190: DELETE FROM predictions
R188 ==
    /\ job.pc = "188"
    /\ db' = <<>>
    /\ job' = [ job EXCEPT !.pc = "192" ]
    /\ UNCHANGED <<feed, predictor, rowid, archives, today, resp, req, started>>

\* lines 192-198, one assignment each
ResetOrder ==
    << "loss_streak", "total_predictions", "total_wins", "total_losses",
       "last_issue", "current_prediction", "strategy" >>

R192 ==
    \E k \in DOMAIN ResetOrder :
      /\ job.pc = ToString(191 + k)
      /\ predictor' = [ predictor EXCEPT ![ResetOrder[k]] = Zeroed(predictor)[ResetOrder[k]] ]
      /\ job' = [ job EXCEPT !.pc = IF k = Len(ResetOrder) THEN "idle"
                                    ELSE ToString(192 + k) ]
      /\ UNCHANGED <<feed, db, rowid, archives, today, resp, req, started>>

\* Before any overlap: an event is drawn and polled by a request that runs alone.
SerialPoll ==
    /\ started = 0
    /\ job.pc = "idle"
    /\ today = 0
    /\ Draw(ConcEvents)
    /\ Respond(Page(feed'), evaluate(predictor, Page(feed')))
    /\ UNCHANGED <<archives, today, threads>>

DrawConc ==
    /\ Draw(ConcEvents)
    /\ UNCHANGED <<predictor, db, rowid, archives, today, resp, threads>>

\* One statement of a request on thread t.
Request(t) ==
    \/ Fetch(t) \/ E135(t) \/ E136(t) \/ E137(t) \/ E138(t) \/ E139(t)
    \/ E140(t) \/ E143(t) \/ E144(t) \/ E149(t) \/ E151(t) \/ E152(t)
    \/ E153(t) \/ E155(t) \/ E156(t) \/ E158(t) \/ E164(t) \/ E174(t)

\* One statement of the reset job.
Job == R183 \/ R62 \/ R71 \/ R188 \/ R192

\* Two requests that may overlap.
NextPolls == SerialPoll \/ DrawConc \/ \E t \in Threads : Request(t)

SpecPolls == Init /\ [][NextPolls]_vars

\* A request and the reset job that may overlap.
NextReset == SerialPoll \/ DrawConc \/ Request("w1") \/ Job

SpecReset == Init /\ [][NextReset]_vars

\* ------------------------------------------------------- the store fails
\* save_prediction catches nothing: an sqlite3.Error raised by connect, execute
\* or commit leaves evaluate at line 164 and data() at line 219, and Flask
\* answers the request with its 500.
Unhandled == [ status |-> 500, error |-> "Internal Server Error" ]

\* Raised that undoes what the call did to the predictor.
RaisedRolledBack(p, e) == p

\* The predictor once save_prediction has raised: lines 136-156 have run.
Raised(p, e) == e.p

\* GET /data on a new issue whose INSERT raises; no row is written.
DataStoreError ==
    /\ feed /= <<>>
    /\ evaluate(predictor, Page(feed)).saved
    /\ predictor' = Raised(predictor, evaluate(predictor, Page(feed)))
    /\ resp' = Unhandled
    /\ UNCHANGED <<feed, db, rowid, archives, today, threads>>

NextStore == NewEvent \/ Data \/ DataStoreError

SpecStore == Init /\ [][NextStore]_vars

\* ------------------------------------------------ the first poll of a run
\* The process starts against a feed that already holds a history.  Numbers
\* the feed can have drawn, for the windows that analyze is looked at over.
HotDraws ==
    { [number |-> 0, color |-> "red,violet"], [number |-> 3, color |-> "green"],
      [number |-> 6, color |-> "red"], [number |-> 9, color |-> "green"] }

\* The histories of at most n draws out of ds, most recent first.
Histories(ds, n) == UNION { [ 1 .. k -> ds ] : k \in 0 .. n }

\* The JSON list of the history h: its latest entry is issue FirstIssue.
Listed(h) ==
    [ i \in DOMAIN h |-> [ issueNumber |-> FirstIssue + 1 - i,
                           number |-> h[i].number, color |-> h[i].color ] ]

InitWindow ==
    /\ feed \in { Listed(h) :
                    h \in Histories(Draws, MaxWindow) \cup Histories(HotDraws, MaxHotWindow) }
    /\ predictor = NewPredictor
    /\ db = <<>>
    /\ rowid = 0
    /\ archives = <<>>
    /\ today = 0
    /\ resp = NoResponse
    /\ req = [ t \in Threads |-> IdleRequest ]
    /\ job = IdleJob
    /\ started = 0

NextWindow == Data

SpecWindow == InitWindow /\ [][NextWindow]_vars

\* ================================================================== claims
\* The steps of Spec told apart by what they change: NewEvent lengthens feed,
\* ResetDaily advances today, and Data does neither.
DataStep == feed' = feed /\ today' = today

ResetStep == today' /= today

HeadIssue == ToString(feed[1].issueNumber)

\* A /data request that got a non-empty frame.
Observe == DataStep /\ resp'.status = 200

\* ... whose latest issue is the one seen last: a repeat poll.
Repeat == Observe /\ predictor.last_issue = HeadIssue

\* ... whose latest issue is new: the poll resolves it.
Resolve == Observe /\ predictor.last_issue /= HeadIssue

\* A /data request that got the empty frame.
NoFrame == DataStep /\ resp'.status = 500

\* C1. Conservation: after any complete calls wins + losses = predictions, and
\* one observe raises total_predictions by at most 1: by 0 on a repeat poll, on
\* the empty frame and when no prediction is pending, whatever the window holds.
C1_Conservation ==
    /\ [](predictor.total_wins + predictor.total_losses = predictor.total_predictions)
    /\ [][DataStep =>
            /\ predictor'.total_predictions \in
                 { predictor.total_predictions, predictor.total_predictions + 1 }
            /\ (NoFrame \/ Repeat \/ predictor.current_prediction = None)
                 => predictor'.total_predictions = predictor.total_predictions]_vars

\* Two polls, the second over a window with three events not seen before.
C1_Witness ==
    /\ Len(db) = 2
    /\ db[1].issue = ToString(FirstIssue)
    /\ db[2].issue = ToString(FirstIssue + 3)
    /\ predictor.total_predictions = 1

\* C2. A repeat poll (non-empty window, window[0].id = last_issue) changes no
\* field of the predictor and appends no record.
C2_RepeatNoOp == [][Repeat => UNCHANGED <<predictor, db, rowid>>]_vars

\* A repeat poll has answered (only a repeat answers with the empty outcome).
C2_Witness ==
    /\ resp.status = 200
    /\ resp.outcome = ""
    /\ Len(db) = 1
    /\ predictor.last_issue = HeadIssue

\* Two /data requests in a row on the same window: the earlier one answered
\* resp, and no event or reset came since.
SecondInARow == Repeat /\ resp.status = 200

\* C3, as claimed. The second of two calls in a row on an unchanged window
\* returns the result of the first, also when the first resolved the event.
C3_Identical == [][SecondInARow => resp' = resp]_vars

\* C3, amended. The second call returns the result of the first except for the
\* outcome, which is empty on every repeat poll.
C3_IdenticalButOutcome ==
    [][SecondInARow => resp' = [ resp EXCEPT !.outcome = "" ]]_vars

\* A repeat poll has answered after a prediction was scored.
C3_Witness ==
    /\ resp.status = 200
    /\ resp.outcome = ""
    /\ resp.total >= 1
    /\ predictor.last_issue = HeadIssue

\* C4. loss_streak is 0 after a WIN, one more after a LOSS, unchanged by a
\* first run, a repeat poll and the empty frame; it drops only through a WIN or
\* a reset, and is never negative.
C4_Streak ==
    /\ [](predictor.loss_streak >= 0)
    /\ [][/\ (Observe /\ resp'.outcome = "WIN") => predictor'.loss_streak = 0
          /\ (Observe /\ resp'.outcome = "LOSS")
               => predictor'.loss_streak = predictor.loss_streak + 1
          /\ (NoFrame \/ (Observe /\ resp'.outcome \in { "First Run", "" }))
               => predictor'.loss_streak = predictor.loss_streak
          /\ predictor'.loss_streak < predictor.loss_streak
               => ((Observe /\ resp'.outcome = "WIN") \/ ResetStep)]_vars

\* Two losses in a row, then a win that cleared the streak.
C4_Witness ==
    /\ Len(db) >= 3
    /\ db[Len(db) - 2].outcome = "LOSS"
    /\ db[Len(db) - 1].outcome = "LOSS"
    /\ db[Len(db)].outcome = "WIN"
    /\ predictor.loss_streak = 0

\* C5. After a poll that resolves a new event, with the streak as scoring left
\* it: at 3 losses or more the prediction is the complement of follow_trend of
\* the window and the label is "Switched (losses=<streak>)"; below, it is
\* follow_trend of the window and the label is "Follow-Trend".
C5_Switching ==
    [][Resolve =>
         IF predictor'.loss_streak >= SwitchThreshold
         THEN /\ predictor'.current_prediction \in { "Big", "Small" }
              /\ predictor'.current_prediction /= follow_trend(Page(feed))
              /\ predictor'.strategy =
                   "Switched (losses=" \o ToString(predictor'.loss_streak) \o ")"
         ELSE /\ predictor'.current_prediction = follow_trend(Page(feed))
              /\ predictor'.strategy = "Follow-Trend"]_vars

\* The third loss in a row switched a Small trend to Big.
C5_Witness ==
    /\ predictor.loss_streak = 3
    /\ predictor.strategy = "Switched (losses=3)"
    /\ predictor.current_prediction = "Big"
    /\ predictor.last_issue = HeadIssue
    /\ follow_trend(Page(feed)) = "Small"

\* C6, as claimed. A poll that leaves the streak at 2 and finds the trend Big
\* predicts Small under "Switched (losses=2)".
C6_SwitchAtTwo ==
    [][(Resolve /\ predictor'.loss_streak = 2 /\ follow_trend(Page(feed)) = "Big")
         => /\ predictor'.current_prediction = "Small"
            /\ predictor'.strategy = "Switched (losses=2)"]_vars

\* C6, amended. The threshold is the constant 3: with the trend Big, a poll that
\* leaves the streak at 2 predicts Big under "Follow-Trend", and one that leaves
\* it at 3 predicts Small under "Switched (losses=3)".
C6_SwitchAtThree ==
    [][(Resolve /\ follow_trend(Page(feed)) = "Big") =>
         /\ predictor'.loss_streak = 2
              => /\ predictor'.current_prediction = "Big"
                 /\ predictor'.strategy = "Follow-Trend"
         /\ predictor'.loss_streak = 3
              => /\ predictor'.current_prediction = "Small"
                 /\ predictor'.strategy = "Switched (losses=3)"]_vars

\* The third loss in a row switched a Big trend to Small.
C6_Witness ==
    /\ predictor.loss_streak = 3
    /\ predictor.strategy = "Switched (losses=3)"
    /\ predictor.current_prediction = "Small"
    /\ predictor.last_issue = HeadIssue
    /\ follow_trend(Page(feed)) = "Big"

\* The predictor as a reset leaves it.
ZeroEpoch ==
    /\ predictor.loss_streak = 0
    /\ predictor.total_predictions = 0
    /\ predictor.total_wins = 0
    /\ predictor.total_losses = 0
    /\ predictor.last_issue = None
    /\ predictor.current_prediction = None

\* C7. A reset leaves the four counters 0 and last_issue and current_prediction
\* None; the next observe with a non-empty window answers "First Run" and
\* changes no counter, also when the window's latest issue is the one seen
\* last before the reset.
C7_ResetEpoch ==
    /\ [][ResetStep => ZeroEpoch']_vars
    /\ [][(ZeroEpoch /\ Observe) =>
            /\ resp'.outcome = "First Run"
            /\ predictor'.loss_streak = 0
            /\ predictor'.total_predictions = 0
            /\ predictor'.total_wins = 0
            /\ predictor'.total_losses = 0]_vars

\* After a reset, the issue archived last was polled again as a first run.
C7_Witness ==
    /\ today = 1
    /\ archives[ArchiveName(1)].rows /= <<>>
    /\ Len(db) = 1
    /\ db[1].outcome = "First Run"
    /\ db[1].issue =
         archives[ArchiveName(1)].rows[Len(archives[ArchiveName(1)].rows)].issue

\* C8. current_prediction is None exactly when last_issue is None; an observe
\* with a non-empty window leaves a prediction pending (Uninitialized to
\* Tracking, Tracking to Tracking), a reset leaves none, and only a reset
\* takes a pending prediction away.
C8_TwoStates ==
    /\ []((predictor.current_prediction = None) <=> (predictor.last_issue = None))
    /\ [][Observe => predictor'.current_prediction \in { "Big", "Small" }]_vars
    /\ [][ResetStep => predictor'.current_prediction = None]_vars
    /\ [][(predictor.current_prediction /= None /\ predictor'.current_prediction = None)
            => ResetStep]_vars

\* Tracking, then back to Uninitialized by the reset.
C8_Witness ==
    /\ today = 1
    /\ archives[ArchiveName(1)].rows /= <<>>
    /\ predictor.current_prediction = None
    /\ predictor.last_issue = None

Max(a, b) == IF a > b THEN a ELSE b

\* C9. Overlapping polls score an event once: the table holds one record per
\* issue, and no more predictions are scored, nor losses counted in a row,
\* than events have followed the first.
C9_ScoredOnce ==
    /\ \A i, j \in DOMAIN db : i /= j => db[i].issue /= db[j].issue
    /\ predictor.total_predictions <= Max(Len(feed) - 1, 0)
    /\ predictor.loss_streak <= Max(Len(feed) - 1, 0)

\* The ids of the rows held by the table and by the archives.
Kept ==
    { db[i].id : i \in DOMAIN db }
      \cup UNION { { archives[f].rows[i].id : i \in DOMAIN archives[f].rows } :
                   f \in DOMAIN archives }

\* C10. No record is lost by a reset: every row ever inserted is in the table
\* or in an archive.
C10_NoRecordLost == \A id \in 1 .. rowid : id \in Kept

\* No request and no job is part way through its code.
Quiet == job.pc = "idle" /\ \A t \in Threads : req[t].pc = "idle"

\* C11. A reset that overlaps an observe leaves, once both have finished, a
\* state that the two calls run one after the other could leave: wins + losses
\* = predictions, and current_prediction is None exactly when last_issue is.
C11_SerialOutcome ==
    Quiet =>
      /\ predictor.total_wins + predictor.total_losses = predictor.total_predictions
      /\ (predictor.current_prediction = None) <=> (predictor.last_issue = None)

\* The BigSmall column of the frame fetch_data builds from the feed.
Categories == [ i \in DOMAIN Page(feed) |-> Page(feed)[i].BigSmall ]

HighIn(w) == Cardinality({ i \in DOMAIN w : w[i] = "Big" })

LowIn(w) == Cardinality({ i \in DOMAIN w : w[i] = "Small" })

FirstThree(w, c) == Len(w) >= 3 /\ w[1] = c /\ w[2] = c /\ w[3] = c

\* The five rules in order, over the first 10 entries of w.
FiveRules(w) ==
    LET first == [ i \in 1 .. Min(10, Len(w)) |-> w[i] ]
    IN  IF HighIn(first) >= 7 THEN "Small"
        ELSE IF LowIn(first) >= 7 THEN "Big"
        ELSE IF FirstThree(first, "Big") THEN "Big"
        ELSE IF FirstThree(first, "Small") THEN "Small"
        ELSE IF HighIn(first) > LowIn(first) THEN "Big"
        ELSE "Small"

\* The first poll of the run has resolved the head of the feed.
Polled == resp.status = 200 /\ predictor.last_issue = HeadIssue

\* C12. For every non-empty window follow_trend returns what the five rules
\* give in order over the first 10 entries (7 Big: Small; 7 Small: Big; first 3
\* Big: Big; first 3 Small: Small; else the strict majority, a tie giving
\* Small); reversal wins over momentum, a window of fewer than 3 entries gets
\* the majority, and the first poll predicts that value.
C12_FiveRules ==
    feed /= <<>> =>
      /\ follow_trend(Page(feed)) = FiveRules(Categories)
      /\ (HighIn(Take(Categories, 10)) >= 7 /\ FirstThree(Categories, "Big"))
           => follow_trend(Page(feed)) = "Small"
      /\ Len(feed) < 3
           => follow_trend(Page(feed)) =
                IF HighIn(Categories) > LowIn(Categories) THEN "Big" ELSE "Small"
      /\ Polled => predictor.current_prediction = FiveRules(Categories)

\* Seven Big of ten with the first three Big, polled: Small is predicted.
C12_Witness ==
    /\ Len(feed) = 10
    /\ HighIn(Categories) = 7
    /\ FirstThree(Categories, "Big")
    /\ Polled
    /\ predictor.current_prediction = "Small"

\* The record of the head of the feed, as a poll that left the predictor as p
\* and answered with outcome o stores it under id n on day d.
RecordOf(n, p, o, d) ==
    [ id |-> n,
      issue |-> HeadIssue,
      number |-> feed[1].number,
      bigsmall |-> IF feed[1].number >= 5 THEN "Big" ELSE "Small",
      color |-> feed[1].color,
      prediction |-> p.current_prediction \o " ("
                       \o JoinNums(Take(analyze(Page(feed)), 2)) \o ")",
      strategy |-> p.strategy,
      outcome |-> o,
      timestamp |-> d ]

\* C13. A poll whose latest issue differs from last_issue appends exactly one
\* record: that of the latest event, with the prediction and the strategy the
\* call itself computed and the outcome of its scoring.  Nothing else appends,
\* and records leave the table only by a reset, which takes them all.
C13_OneRecord ==
    /\ [][Resolve =>
            db' = Append(db, RecordOf(rowid + 1, predictor', resp'.outcome, today))]_vars
    /\ [][db' /= db => (Resolve \/ (ResetStep /\ db' = <<>>))]_vars

\* Two events resolved one after the other: the second record holds the new
\* prediction, not the one that was scored.
C13_Witness ==
    /\ Len(db) = 2
    /\ db[2].issue = HeadIssue
    /\ db[2].outcome = "LOSS"
    /\ db[2].outcome = resp.outcome
    /\ db[2].strategy = predictor.strategy
    /\ db[2].prediction /= db[1].prediction

\* C14. On the empty window evaluate returns the "No Data" tuple, leaves the
\* predictor as it was and saves nothing, with or without a prediction
\* pending; /data answers the empty frame with its 500 and changes nothing.
C14_EmptyWindow ==
    /\ [](/\ evaluate(predictor, <<>>).ret.outcome = "No Data"
          /\ evaluate(predictor, <<>>).ret.hot = <<>>
          /\ evaluate(predictor, <<>>).p = predictor
          /\ ~ evaluate(predictor, <<>>).saved)
    /\ [][NoFrame => /\ resp' = ErrorResponse
                     /\ UNCHANGED <<predictor, db, rowid, archives>>]_vars

\* A fetch came back empty while a prediction was pending.
C14_Witness ==
    /\ resp = ErrorResponse
    /\ predictor.current_prediction /= None
    /\ predictor.total_predictions >= 1
    /\ Len(db) >= 2

\* A /data request whose INSERT raised.
StoreFailed == DataStep /\ resp' = Unhandled

\* C15. When the INSERT fails in a poll that resolves a new event, the
\* predictor is left as a successful call leaves it (scored, last_issue the new
\* issue, prediction and strategy recomputed) and no row is written; a later
\* poll on the same issue is a repeat that changes nothing, and rows are only
\* appended for an issue that is not last_issue, so the event gets no record.
C15_NoRollback ==
    /\ [][StoreFailed =>
            /\ predictor.last_issue /= HeadIssue
            /\ predictor' = evaluate(predictor, Page(feed)).p
            /\ predictor'.last_issue = HeadIssue
            /\ predictor'.total_predictions = predictor.total_predictions
                 + (IF predictor.current_prediction = None THEN 0 ELSE 1)
            /\ predictor'.current_prediction \in { "Big", "Small" }
            /\ UNCHANGED <<db, rowid>>]_vars
    /\ [][Repeat => UNCHANGED <<predictor, db, rowid>>]_vars
    /\ [][db' /= db => /\ predictor.last_issue /= HeadIssue
                       /\ Len(db') = Len(db) + 1
                       /\ db'[Len(db')].issue = HeadIssue]_vars

\* The second event was scored by a poll whose INSERT failed, and polled again:
\* the repeat answered, and the table holds the first event only.
C15_Witness ==
    /\ Len(feed) = 2
    /\ Len(db) = 1
    /\ db[1].issue /= HeadIssue
    /\ predictor.last_issue = HeadIssue
    /\ predictor.total_predictions = 1
    /\ resp.status = 200
    /\ resp.outcome = ""

\* C16. A poll on a non-empty window always ends with a result, also when the
\* INSERT fails: no request ends in an exception that nothing handled.
C16_AlwaysResult == resp /= Unhandled

\* The Number column of the frame fetch_data builds from the feed.
Magnitudes == [ i \in DOMAIN Page(feed) |-> feed[i].number ]

Times(n) == Cardinality({ i \in DOMAIN Magnitudes : Magnitudes[i] = n })

FirstAt(n) ==
    CHOOSE i \in DOMAIN Magnitudes :
      Magnitudes[i] = n /\ \A j \in 1 .. (i - 1) : Magnitudes[j] /= n

\* a ranks before b: it occurs more often, or as often and first earlier.
RanksBefore(a, b) ==
    \/ Times(a) > Times(b)
    \/ Times(a) = Times(b) /\ FirstAt(a) < FirstAt(b)

\* hot holds the (at most 3) numbers of the window that rank first, in rank order.
TopThree(hot) ==
    /\ Len(hot) = Min(3, Cardinality({ Magnitudes[i] : i \in DOMAIN Magnitudes }))
    /\ \A i \in DOMAIN hot : \E k \in DOMAIN Magnitudes : Magnitudes[k] = hot[i]
    /\ \A i, j \in DOMAIN hot : i < j => RanksBefore(hot[i], hot[j])
    /\ \A k \in DOMAIN Magnitudes :
         (\A i \in DOMAIN hot : hot[i] /= Magnitudes[k])
           => \A i \in DOMAIN hot : RanksBefore(hot[i], Magnitudes[k])

\* C17, as claimed. For every window analyze returns the at most 3 numbers
\* that occur most often, by descending count and then by first occurrence,
\* and the empty sequence for the empty window.
C17_Hot ==
    /\ TopThree(analyze(Page(feed)))
    /\ feed = <<>> => analyze(Page(feed)) = <<>>

\* C17, amended. For every non-empty window analyze returns the at most 3
\* numbers that occur most often, by descending count and then by first
\* occurrence, and /data answers with them; on the frame built from no
\* entries it raises, and evaluate returns before it calls it on one.
C17_HotNonEmpty ==
    /\ feed /= <<>> => TopThree(analyze(Page(feed)))
    /\ (feed /= <<>> /\ resp.status = 200) => TopThree(resp.hot)
    /\ feed = <<>> =>
         /\ analyze(Page(feed)) = KeyError
         /\ evaluate(predictor, Page(feed)).ret.hot = <<>>

\* Four numbers in a window of five, two of them as often as each other and
\* one left out: the poll answered the three that rank first.
C17_Witness ==
    /\ Len(feed) = 5
    /\ Cardinality({ Magnitudes[i] : i \in DOMAIN Magnitudes }) = 4
    /\ resp.status = 200
    /\ Len(resp.hot) = 3
    /\ Times(resp.hot[1]) = 2
    /\ Times(resp.hot[2]) = Times(resp.hot[3])
    /\ resp.hot[1] /= Magnitudes[1]

\* The category a stored prediction ("Big (4, 5)", "Small (4)") names.
PredictedIn(s) ==
    IF Like(s, "Big ") THEN "Big" ELSE IF Like(s, "Small ") THEN "Small" ELSE "?"

\* The records of one epoch, in append order: the first is the first run, and
\* each later one is a WIN when the record before it predicted its category
\* and a LOSS when not.
Chained(rows) ==
    /\ \A i \in DOMAIN rows : (i = 1) <=> (rows[i].outcome = "First Run")
    /\ \A i \in 2 .. Len(rows) :
         rows[i].outcome =
           IF PredictedIn(rows[i - 1].prediction) = rows[i].bigsmall
           THEN "WIN" ELSE "LOSS"

\* C18. Within an epoch, with a store that works, each record after the first
\* is a WIN exactly when the category the record before it predicted is its
\* actual category, and a LOSS otherwise; the first record of the epoch, and
\* only that one, is the first run.  So for the table and for every archive.
C18_Chain ==
    /\ Chained(db)
    /\ \A f \in DOMAIN archives : Chained(archives[f].rows)

\* An epoch with a win and then a loss on record.
C18_Witness ==
    /\ Len(db) >= 3
    /\ db[2].outcome = "WIN"
    /\ db[3].outcome = "LOSS"
    /\ PredictedIn(db[2].prediction) /= db[3].bigsmall

\* C19. After complete calls from a start on an empty table, with a store that
\* works, the wins and losses /history/view counts in the table are
\* total_wins and total_losses.
C19_StoreAgrees ==
    /\ history_view.wins = predictor.total_wins
    /\ history_view.losses = predictor.total_losses

\* The epoch after a reset has a win and a loss, the one before it had records.
C19_Witness ==
    /\ today = 1
    /\ archives[ArchiveName(1)].rows /= <<>>
    /\ predictor.total_wins = 1
    /\ predictor.total_losses = 1
    /\ Len(db) = 3

\* The LOSS records at the end of the epoch's records.
TrailingLosses ==
    Cardinality({ k \in DOMAIN db : \A j \in k .. Len(db) : db[j].outcome = "LOSS" })

\* C20. After complete calls loss_streak is the number of LOSS outcomes at the
\* end of the epoch's scored outcomes (0 after a WIN or when nothing is
\* scored), it is at most total_losses, and the strategy label, in the
\* predictor and in the last record, is a "Switched" one exactly when
\* loss_streak >= 3.
C20_StreakMatches ==
    /\ predictor.loss_streak = TrailingLosses
    /\ predictor.loss_streak <= predictor.total_losses
    /\ (predictor.loss_streak >= 3) <=> Like(predictor.strategy, "Switched")
    /\ db /= <<>> => db[Len(db)].strategy = predictor.strategy

\* A win, then three losses in a row: the streak is 3 of 3 losses, switched.
C20_Witness ==
    /\ Len(db) = 5
    /\ db[2].outcome = "WIN"
    /\ predictor.loss_streak = 3
    /\ predictor.total_losses = 3
    /\ db[5].strategy = "Switched (losses=3)"

====
